---- MODULE Spec2Model ----
(***************************************************************************)
(* A model of the tilworth utilities: the buffer helpers (concat, pad,     *)
(* padRand) and the hex / base64 transcoders.  Every utility is a          *)
(* stateless call: a behaviour is one call, from the state holding the     *)
(* operation and its arguments to the state holding what the call returned *)
(* or threw.                                                               *)
(*                                                                         *)
(* Byte sequences are sequences over 0..255, strings are sequences of      *)
(* one-character strings.                                                  *)
(***************************************************************************)
EXTENDS Integers, Sequences, FiniteSets, TLC

VARIABLES
  pc,         \* "call" before the operation runs, "done" after it; for listen
              \* "listening" after it and "cleaned" once its cleanup has run
  op,         \* the operation called
  arg,        \* its arguments, a record
  ret,        \* what it returned or threw, a record with a kind field
  randCalls,  \* calls of crypto.getRandomValues made by the operation
  elm,        \* the event listeners registered on the element
  invoked,    \* one entry for every invocation of the listener
  timer,      \* the timer of setTimeout: "none", "pending", "fired" or "cleared"
  done,       \* the done flag of delay
  log,        \* what has happened since the call, in order
  promise,    \* the promise the operation returned
  signal,     \* the signal of the AbortController handed to wait
  sources,    \* the promises handed to the operation, in the order of its arguments
  queue,      \* the reaction jobs that wait to run: the sources they react to
  reacted,    \* the sources whose reaction job has run
  heap        \* the BetterSet objects: what each of them holds

\* the promises an operation is handed, and the jobs reacting to them
sourceVars == <<sources, queue, reacted>>

\* the state of the asynchronous operations
asyncVars == <<timer, done, log, promise, signal, sourceVars>>

vars == <<pc, op, arg, ret, randCalls, elm, invoked, asyncVars, heap>>

(***************************************************************************)
(* Bounds of the model.                                                    *)
(***************************************************************************)
\* longest payload handed to pad / padRand
MaxPayloadLen == 2
\* longest byte sequence handed to the encoders
MaxLen == 4
\* longest text handed to hex.decode
MaxTextLen == 3
\* longest text handed to base64.decode and blob.fromBase64
MaxB64Len == 4
\* longest string, in code points, handed to utf8.encode
MaxStrLen == 3
\* most ";"-led tokens between the MIME type and the payload of a data URL
MaxParams == 2
\* most invocations of the listener in one run
MaxInvoked == 2
\* longest string handed to trimSlashes
MaxPathLen == 4
\* most arguments handed to joinPath
MaxArgs == 3
\* most calls of the function delay returns
MaxCancels == 2
\* most calls of abort on the controller handed to wait
MaxAborts == 2
\* most promises handed to allOf
MaxInputs == 2
\* most values an iterator handed to a BetterSet method yields
MaxYield == 2
\* most additions and deletions after a BetterSet method has returned
MaxMutations == 1
\* most typed arrays handed to one concat call
MaxBufs == 2
\* longest ArrayBuffer (in elements) under a typed array handed to concat
MaxBufLen == 2

(***************************************************************************)
(* Values of the JavaScript runtime.                                       *)
(***************************************************************************)
\* the value of a call that has not returned yet
None == [kind |-> "none"]

\* JavaScript's undefined
Undefined == [kind |-> "undefined"]

\* an exception thrown out of the call
Throw(name) == [kind |-> "throw", error |-> name]

\* a Uint8Array over a buffer of its own
Bytes(bs) == [kind |-> "bytes", bytes |-> bs]

\* a string
Text(cs) == [kind |-> "text", text |-> cs]

\* new Uint8Array(n): n zero bytes
Zeros(n) == [i \in 1..n |-> 0]

\* ToUint16 / ToUint8 of an integer
ToUint16(x) == x % 65536

ToUint8(x) == x % 256

(***************************************************************************)
(* buffer.pad and buffer.padRand                                           *)
(***************************************************************************)
\* TypedArray.prototype.fill(value, start, end): a negative index counts from the end
RelIndex(k, n) == IF k < 0 THEN (IF n + k < 0 THEN 0 ELSE n + k)
                  ELSE (IF k > n THEN n ELSE k)

Fill(a, value, start, end) ==
  LET from == RelIndex(start, Len(a))
      to   == RelIndex(end, Len(a))
  IN [i \in 1..Len(a) |-> IF i > from /\ i <= to THEN value ELSE a[i]]

\* TypedArray.prototype.set(src, offset); the caller has checked the range
SetBytes(a, src, offset) ==
  [i \in 1..Len(a) |->
     IF i > offset /\ i <= offset + Len(src) THEN src[i - offset] ELSE a[i]]

\* the range check of TypedArray.prototype.set
SetInRange(a, src, offset) == offset >= 0 /\ offset + Len(src) <= Len(a)

\* setUint16 writing the low byte first
SetUint16LE(a, byteOffset, value) ==
  [a EXCEPT ![byteOffset + 1] = ToUint16(value) % 256,
            ![byteOffset + 2] = ToUint16(value) \div 256]

\* DataView.prototype.setUint16(byteOffset, value, littleEndian = false)
SetUint16(a, byteOffset, value) ==
  [a EXCEPT ![byteOffset + 1] = ToUint16(value) \div 256,
            ![byteOffset + 2] = ToUint16(value) % 256]

\* DataView.prototype.getUint16(byteOffset, false)
GetUint16(a, byteOffset) == a[byteOffset + 1] * 256 + a[byteOffset + 2]

\* buffer.pad(buf, len)
pad(buf, len) ==
  LET offset == 2 + len
      size   == offset + Len(buf)
  IN IF size < 0 THEN Throw("RangeError")                    \* new Uint8Array(size)
     ELSE LET padded == Fill(Zeros(size), 0, 0, offset)
          IN IF ~SetInRange(padded, buf, offset) THEN Throw("RangeError")
             ELSE IF size < 2 THEN Throw("RangeError")       \* dv.setUint16(0, ...)
             ELSE Bytes(SetUint16(SetBytes(padded, buf, offset), 0, len))

\* padRand using seven bits of the random byte
padRandHalf(buf, r) == pad(buf, r \div 2)

\* buffer.padRand(buf), r the byte crypto.getRandomValues stored
padRand(buf, r) == pad(buf, r)

(***************************************************************************)
(* buffer.concat                                                           *)
(***************************************************************************)
\* a typed array: a view of `length` elements at byteOffset of an ArrayBuffer
TypedArray(ctor, buffer, byteOffset, length) ==
  [kind |-> "typedarray", ctor |-> ctor, buffer |-> buffer,
   byteOffset |-> byteOffset, length |-> length]

\* the element types of the model, of TypedArrays
Ctors == {"Uint8Array", "Uint16Array"}

BYTES_PER_ELEMENT(ctor) == IF ctor = "Uint16Array" THEN 2 ELSE 1

\* TypedArray.prototype.byteLength
byteLength(ta) == ta.length * BYTES_PER_ELEMENT(ta.ctor)

\* the elements a typed array shows (little-endian platform)
Elements(ta) ==
  [i \in 1..ta.length |->
     LET p == ta.byteOffset + (i - 1) * BYTES_PER_ELEMENT(ta.ctor)
     IN IF BYTES_PER_ELEMENT(ta.ctor) = 2
        THEN ta.buffer[p + 1] + 256 * ta.buffer[p + 2]
        ELSE ta.buffer[p + 1]]

\* bufs.reduce((acc, buf) => acc + buf.byteLength, 0)
RECURSIVE SumByteLength(_)
SumByteLength(bufs) ==
  IF bufs = <<>> THEN 0
  ELSE byteLength(Head(bufs)) + SumByteLength(Tail(bufs))

\* the copy loop of concat from index i on: each step views the WHOLE ArrayBuffer
\* under bufs[i] and advances by that buffer's length
RECURSIVE CopyLoop(_, _, _, _)
CopyLoop(merged, bufs, i, offset) ==
  IF i > Len(bufs) THEN [ok |-> TRUE, merged |-> merged]
  ELSE LET buf == bufs[i].buffer
       IN IF ~SetInRange(merged, buf, offset) THEN [ok |-> FALSE]
          ELSE CopyLoop(SetBytes(merged, buf, offset), bufs, i + 1, offset + Len(buf))

\* buffer.concat(...bufs)
concat(bufs) ==
  IF Len(bufs) = 0 THEN Undefined
  ELSE LET len    == SumByteLength(bufs)
           copied == CopyLoop(Zeros(len), bufs, 1, 0)
           ctor   == bufs[1].ctor
       IN IF ~copied.ok THEN Throw("RangeError")
          ELSE IF len % BYTES_PER_ELEMENT(ctor) # 0 THEN Throw("RangeError")
          ELSE TypedArray(ctor, copied.merged, 0, len \div BYTES_PER_ELEMENT(ctor))

(***************************************************************************)
(* Strings                                                                 *)
(***************************************************************************)
\* Array.prototype.join(""): the parts one after the other
RECURSIVE Join(_)
Join(parts) == IF parts = <<>> THEN <<>> ELSE Head(parts) \o Join(Tail(parts))

\* padStart padding at the wrong end
RECURSIVE padEnd(_, _, _)
padEnd(str, targetLength, c) ==
  IF Len(str) >= targetLength THEN str ELSE padEnd(str \o <<c>>, targetLength, c)

\* String.prototype.padStart(targetLength, padString), padString one character
RECURSIVE padStart(_, _, _)
padStart(str, targetLength, c) ==
  IF Len(str) >= targetLength THEN str ELSE padStart(<<c>> \o str, targetLength, c)

\* the white space parseInt and atob skip, as far as the model's strings hold it
WhiteSpace == {" ", "\t", "\n", "\f", "\r"}

(***************************************************************************)
(* hex                                                                     *)
(***************************************************************************)
UpperHex == <<"0", "1", "2", "3", "4", "5", "6", "7", "8", "9", "A", "B", "C", "D", "E", "F">>

LowerHex == <<"0", "1", "2", "3", "4", "5", "6", "7", "8", "9", "a", "b", "c", "d", "e", "f">>

\* toString16 writing uppercase digits
toString16Upper(b) ==
  IF b < 16 THEN <<UpperHex[b + 1]>>
  ELSE <<UpperHex[(b \div 16) + 1], UpperHex[(b % 16) + 1]>>

\* Number.prototype.toString(16) of a byte: no leading zero, lowercase
toString16(b) ==
  IF b < 16 THEN <<LowerHex[b + 1]>>
  ELSE <<LowerHex[(b \div 16) + 1], LowerHex[(b % 16) + 1]>>

\* hexByte without its padStart
hexByteUnpadded(b) == toString16(b)

\* the callback of hex.encode's map
hexByte(b) == padStart(toString16(b), 2, "0")

\* hex.encode(buf)
hexEncode(bytes) == Text(Join([i \in 1..Len(bytes) |-> hexByte(bytes[i])]))

\* a JavaScript number: NaN or an integer
NaN == [nan |-> TRUE]

Num(v) == [nan |-> FALSE, val |-> v]

IsHexDigit(c) == \E v \in 1..16 : LowerHex[v] = c \/ UpperHex[v] = c

DigitValue(c) == (CHOOSE v \in 1..16 : LowerHex[v] = c \/ UpperHex[v] = c) - 1

\* the string without its leading white space
RECURSIVE TrimStart(_)
TrimStart(str) ==
  IF str # <<>> /\ Head(str) \in WhiteSpace THEN TrimStart(Tail(str)) ELSE str

\* the longest prefix of hexadecimal digits
RECURSIVE DigitPrefix(_)
DigitPrefix(str) ==
  IF str # <<>> /\ IsHexDigit(Head(str))
  THEN <<Head(str)>> \o DigitPrefix(Tail(str))
  ELSE <<>>

\* the number a string of hexadecimal digits writes
RECURSIVE HexValue(_)
HexValue(digits) ==
  IF digits = <<>> THEN 0
  ELSE 16 * HexValue(SubSeq(digits, 1, Len(digits) - 1)) + DigitValue(digits[Len(digits)])

\* parseInt(str, 16): white space, a sign, a 0x prefix, then digits up to the first
\* character that is none; NaN when there is no digit
parseInt16(str) ==
  LET trimmed  == TrimStart(str)
      negative == trimmed # <<>> /\ Head(trimmed) = "-"
      unsigned == IF trimmed # <<>> /\ Head(trimmed) \in {"+", "-"}
                  THEN Tail(trimmed) ELSE trimmed
      body     == IF Len(unsigned) >= 2 /\ unsigned[1] = "0" /\ unsigned[2] \in {"x", "X"}
                  THEN SubSeq(unsigned, 3, Len(unsigned)) ELSE unsigned
      digits   == DigitPrefix(body)
  IN IF digits = <<>> THEN NaN
     ELSE Num(IF negative THEN 0 - HexValue(digits) ELSE HexValue(digits))

\* storing a number into a Uint8Array element: NaN is stored as 0
StoreUint8(x) == IF x.nan THEN 0 ELSE ToUint8(x.val)

\* hexPadOdd padding at the end
hexPadOddEnd(hex) == IF Len(hex) % 2 = 1 THEN padEnd(hex, Len(hex) + 1, "0") ELSE hex

\* the first statement of hex.decode: a string of odd length gets a leading "0"
hexPadOdd(hex) == IF Len(hex) % 2 = 1 THEN padStart(hex, Len(hex) + 1, "0") ELSE hex

\* hex.slice(i * 2, i * 2 + 2), i counted from 1 here
HexGroup(str, i) == SubSeq(str, 2 * i - 1, 2 * i)

\* hex.decode(hex)
hexDecode(hex) ==
  LET padded == hexPadOdd(hex)
      size   == Len(padded) \div 2
  IN Bytes([i \in 1..size |-> StoreUint8(parseInt16(HexGroup(padded, i)))])

(***************************************************************************)
(* base64                                                                  *)
(***************************************************************************)
Base64Alphabet ==
  <<"A", "B", "C", "D", "E", "F", "G", "H", "I", "J", "K", "L", "M", "N", "O", "P",
    "Q", "R", "S", "T", "U", "V", "W", "X", "Y", "Z", "a", "b", "c", "d", "e", "f",
    "g", "h", "i", "j", "k", "l", "m", "n", "o", "p", "q", "r", "s", "t", "u", "v",
    "w", "x", "y", "z", "0", "1", "2", "3", "4", "5", "6", "7", "8", "9", "+", "/">>

IsBase64Char(c) == \E v \in 1..64 : Base64Alphabet[v] = c

Base64Value(c) == (CHOOSE v \in 1..64 : Base64Alphabet[v] = c) - 1

\* btoa(byteStr), byteStr the character codes String.fromCharCode made of the bytes
RECURSIVE btoa(_)
btoa(codes) ==
  IF Len(codes) = 0 THEN <<>>
  ELSE IF Len(codes) = 1
  THEN <<Base64Alphabet[(codes[1] \div 4) + 1],
         Base64Alphabet[(codes[1] % 4) * 16 + 1], "=", "=">>
  ELSE IF Len(codes) = 2
  THEN <<Base64Alphabet[(codes[1] \div 4) + 1],
         Base64Alphabet[(codes[1] % 4) * 16 + (codes[2] \div 16) + 1],
         Base64Alphabet[(codes[2] % 16) * 4 + 1], "=">>
  ELSE <<Base64Alphabet[(codes[1] \div 4) + 1],
         Base64Alphabet[(codes[1] % 4) * 16 + (codes[2] \div 16) + 1],
         Base64Alphabet[(codes[2] % 16) * 4 + (codes[3] \div 64) + 1],
         Base64Alphabet[(codes[3] % 64) + 1]>>
       \o btoa(SubSeq(codes, 4, Len(codes)))

\* DecodeSextets dropping a rest of 2 or 3 characters
RECURSIVE DecodeFullGroups(_)
DecodeFullGroups(str) ==
  IF Len(str) < 4 THEN <<>>
  ELSE <<Base64Value(str[1]) * 4 + (Base64Value(str[2]) \div 16),
         (Base64Value(str[2]) % 16) * 16 + (Base64Value(str[3]) \div 4),
         (Base64Value(str[3]) % 4) * 64 + Base64Value(str[4])>>
       \o DecodeFullGroups(SubSeq(str, 5, Len(str)))

\* the bytes a string of alphabet characters writes: 4 characters give 3 bytes, a
\* rest of 2 gives 1 byte and a rest of 3 gives 2, the spare bits dropped
RECURSIVE DecodeSextets(_)
DecodeSextets(str) ==
  IF Len(str) < 2 THEN <<>>
  ELSE LET a == Base64Value(str[1])
           b == Base64Value(str[2])
       IN IF Len(str) = 2 THEN <<a * 4 + (b \div 16)>>
          ELSE LET c == Base64Value(str[3])
               IN IF Len(str) = 3
                  THEN <<a * 4 + (b \div 16), (b % 16) * 16 + (c \div 4)>>
                  ELSE <<a * 4 + (b \div 16), (b % 16) * 16 + (c \div 4),
                         (c % 4) * 64 + Base64Value(str[4])>>
                       \o DecodeSextets(SubSeq(str, 5, Len(str)))

\* str without one or two "=" at its end
StripPadding(str) ==
  IF Len(str) >= 2 /\ str[Len(str)] = "=" /\ str[Len(str) - 1] = "="
  THEN SubSeq(str, 1, Len(str) - 2)
  ELSE IF Len(str) >= 1 /\ str[Len(str)] = "="
  THEN SubSeq(str, 1, Len(str) - 1)
  ELSE str

\* atob skipping the characters it does not know
atobSkipUnknown(data) ==
  Text(DecodeSextets(SelectSeq(data, IsBase64Char)))

\* atob refusing a length that is no multiple of 4
atobStrict(data) ==
  LET stripped == SelectSeq(data, LAMBDA c : c \notin WhiteSpace)
      unpadded == StripPadding(stripped)
  IN IF Len(stripped) % 4 # 0 THEN Throw("InvalidCharacterError")
     ELSE IF \E i \in 1..Len(unpadded) : ~IsBase64Char(unpadded[i])
     THEN Throw("InvalidCharacterError")
     ELSE Text(DecodeSextets(unpadded))

\* atob(data): the forgiving base64 decode of the platform
atob(data) ==
  LET stripped == SelectSeq(data, LAMBDA c : c \notin WhiteSpace)
      unpadded == IF Len(stripped) % 4 = 0 THEN StripPadding(stripped) ELSE stripped
  IN IF Len(unpadded) % 4 = 1 THEN Throw("InvalidCharacterError")
     ELSE IF \E i \in 1..Len(unpadded) : ~IsBase64Char(unpadded[i])
     THEN Throw("InvalidCharacterError")
     ELSE Text(DecodeSextets(unpadded))

\* the replacement tables
\* unsafeToSafe leaving the padding in place
unsafeToSafeKeepPad(m) == IF m = "=" THEN <<"=">> ELSE IF m = "+" THEN <<"-">> ELSE <<"_">>

unsafeToSafe(m) == IF m = "=" THEN <<>> ELSE IF m = "+" THEN <<"-">> ELSE <<"_">>

safeToUnsafe(m) == IF m = "-" THEN <<"+">> ELSE <<"/">>

\* makeUrlSafe(base64)
makeUrlSafe(base64) ==
  Join([i \in 1..Len(base64) |->
          IF base64[i] \in {"=", "+", "/"} THEN unsafeToSafe(base64[i]) ELSE <<base64[i]>>])

\* makeUrlUnsafe restoring the padding and leaving "-" and "_" as they are
makeUrlUnsafeNoReplace(base64) ==
  base64 \o [i \in 1..((4 - (Len(base64) % 4)) % 4) |-> "="]

\* makeUrlUnsafe(base64)
makeUrlUnsafe(base64) ==
  LET padding == [i \in 1..((4 - (Len(base64) % 4)) % 4) |-> "="]
  IN Join([i \in 1..Len(base64) |->
             IF base64[i] \in {"-", "_"} THEN safeToUnsafe(base64[i]) ELSE <<base64[i]>>])
     \o padding

\* base64.encode(buf, urlSafe)
base64Encode(bytes, urlSafe) ==
  LET base64 == btoa(bytes)
  IN Text(IF urlSafe THEN makeUrlSafe(base64) ELSE base64)

\* base64.decode(base64, urlSafe)
base64Decode(base64, urlSafe) ==
  LET byteStr == atob(IF urlSafe THEN makeUrlUnsafe(base64) ELSE base64)
  IN IF byteStr.kind = "throw" THEN byteStr ELSE Bytes(byteStr.text)

(***************************************************************************)
(* utf8: a string is the sequence of its code points, an unpaired          *)
(* surrogate being a code point of D800..DFFF                              *)
(***************************************************************************)
BOM == 65279

ReplacementChar == 65533

IsSurrogate(cp) == cp \in 55296..57343

\* the UTF-8 bytes of one code point, an unpaired surrogate written as U+FFFD
EncodeCodePoint(cp) ==
  LET c == IF IsSurrogate(cp) THEN ReplacementChar ELSE cp
  IN IF c < 128 THEN <<c>>
     ELSE IF c < 2048 THEN <<192 + (c \div 64), 128 + (c % 64)>>
     ELSE IF c < 65536
     THEN <<224 + (c \div 4096), 128 + ((c \div 64) % 64), 128 + (c % 64)>>
     ELSE <<240 + (c \div 262144), 128 + ((c \div 4096) % 64),
            128 + ((c \div 64) % 64), 128 + (c % 64)>>

\* utf8Enc.encode(text)
RECURSIVE TextEncoderEncode(_)
TextEncoderEncode(text) ==
  IF text = <<>> THEN <<>>
  ELSE EncodeCodePoint(text[1]) \o TextEncoderEncode(SubSeq(text, 2, Len(text)))

\* utf8.encode(text)
utf8Encode(text) == Bytes(TextEncoderEncode(text))

\* the bytes that may follow the lead byte, by their place after it
ContinuationRange(lead, place) ==
  IF place > 1 THEN 128..191
  ELSE IF lead = 224 THEN 160..191
  ELSE IF lead = 237 THEN 128..159
  ELSE IF lead = 240 THEN 144..191
  ELSE IF lead = 244 THEN 128..143
  ELSE 128..191

\* the number of bytes that follow a lead byte, -1 for a byte that leads nothing
Needed(lead) ==
  IF lead \in 194..223 THEN 1
  ELSE IF lead \in 224..239 THEN 2
  ELSE IF lead \in 240..244 THEN 3
  ELSE -1

\* how many of the bytes after the lead byte continue it
RECURSIVE Continued(_, _, _)
Continued(bytes, lead, place) ==
  IF /\ place <= Needed(lead)
     /\ place + 1 <= Len(bytes)
     /\ bytes[place + 1] \in ContinuationRange(lead, place)
  THEN Continued(bytes, lead, place + 1)
  ELSE place - 1

\* the code point of a lead byte and its continuation bytes
CodePointOf(unit) ==
  IF Len(unit) = 2 THEN (unit[1] - 192) * 64 + (unit[2] - 128)
  ELSE IF Len(unit) = 3
  THEN (unit[1] - 224) * 4096 + (unit[2] - 128) * 64 + (unit[3] - 128)
  ELSE (unit[1] - 240) * 262144 + (unit[2] - 128) * 4096
       + (unit[3] - 128) * 64 + (unit[4] - 128)

\* the code points of a byte sequence, U+FFFD for every ill-formed part
RECURSIVE DecodeCodePoints(_)
DecodeCodePoints(bytes) ==
  IF bytes = <<>> THEN <<>>
  ELSE LET lead == bytes[1]
       IN IF lead < 128 THEN <<lead>> \o DecodeCodePoints(SubSeq(bytes, 2, Len(bytes)))
          ELSE IF Needed(lead) = -1
          THEN <<ReplacementChar>> \o DecodeCodePoints(SubSeq(bytes, 2, Len(bytes)))
          ELSE LET n == Continued(bytes, lead, 1)
               IN IF n = Needed(lead)
                  THEN <<CodePointOf(SubSeq(bytes, 1, n + 1))>>
                       \o DecodeCodePoints(SubSeq(bytes, n + 2, Len(bytes)))
                  ELSE <<ReplacementChar>>
                       \o DecodeCodePoints(SubSeq(bytes, n + 2, Len(bytes)))

\* utf8Dec.decode(buf) of new TextDecoder(): UTF-8, not fatal, a byte order mark
\* at the start left out of the result
TextDecoderDecode(bytes) ==
  LET cps == DecodeCodePoints(bytes)
  IN IF cps # <<>> /\ cps[1] = BOM THEN SubSeq(cps, 2, Len(cps)) ELSE cps

\* utf8.decode(buf)
utf8Decode(bytes) == Text(TextDecoderDecode(bytes))

(***************************************************************************)
(* blob                                                                    *)
(***************************************************************************)
UpperLetters ==
  <<"A", "B", "C", "D", "E", "F", "G", "H", "I", "J", "K", "L", "M",
    "N", "O", "P", "Q", "R", "S", "T", "U", "V", "W", "X", "Y", "Z">>

LowerLetters ==
  <<"a", "b", "c", "d", "e", "f", "g", "h", "i", "j", "k", "l", "m",
    "n", "o", "p", "q", "r", "s", "t", "u", "v", "w", "x", "y", "z">>

\* a character in ASCII lowercase
ToLowerChar(c) ==
  IF \E v \in 1..26 : UpperLetters[v] = c
  THEN LowerLetters[CHOOSE v \in 1..26 : UpperLetters[v] = c]
  ELSE c

\* the type a Blob keeps of the type it is constructed with: lowercased, and
\* empty when a character lies outside U+0020..U+007E
BlobType(type) ==
  IF \E i \in 1..Len(type) : type[i] \in {"\t", "\n", "\f", "\r"} THEN <<>>
  ELSE [i \in 1..Len(type) |-> ToLowerChar(type[i])]

\* new Blob([bytes], { type })
Blob(bytes, type) == [kind |-> "blob", type |-> BlobType(type), bytes |-> bytes]

\* StringOf of a string or of undefined
StringOf(v) ==
  IF v = Undefined THEN <<"u", "n", "d", "e", "f", "i", "n", "e", "d">> ELSE v.text

\* the default of the type parameter
OctetStream == <<"a", "p", "p", "l", "i", "c", "a", "t", "i", "o", "n", "/", "o", "c", "t", "e", "t", "-", "s", "t", "r", "e", "a", "m">>

\* blob.fromBase64(base64, type = "application/octet-stream"), both arguments
\* strings or undefined
blobFromBase64(base64, type) ==
  LET decoded == base64Decode(StringOf(base64), FALSE)
  IN IF decoded.kind = "throw" THEN decoded
     ELSE Blob(decoded.bytes, IF type = Undefined THEN OctetStream ELSE type.text)

\* throw new Error(message)
ThrowError(message) == [kind |-> "throw", error |-> "Error", message |-> message]

\* str.startsWith(prefix)
startsWith(str, prefix) ==
  Len(str) >= Len(prefix) /\ SubSeq(str, 1, Len(prefix)) = prefix

\* str.slice(start)
slice(str, start) == SubSeq(str, start + 1, Len(str))

\* str.split(sep) for a separator of one character
RECURSIVE split(_, _)
split(str, sep) ==
  IF \A i \in 1..Len(str) : str[i] # sep THEN <<str>>
  ELSE LET at == CHOOSE i \in 1..Len(str) :
                   str[i] = sep /\ \A j \in 1..(i - 1) : str[j] # sep
       IN <<SubSeq(str, 1, at - 1)>> \o split(SubSeq(str, at + 1, Len(str)), sep)

\* str.split(sep, limit)
splitLimit(str, sep, limit) ==
  LET pieces == split(str, sep)
  IN SubSeq(pieces, 1, IF Len(pieces) < limit THEN Len(pieces) ELSE limit)

\* the i-th name of an array destructuring: undefined past the end of the array
Destructure(array, i) == IF i <= Len(array) THEN Text(array[i]) ELSE Undefined

\* a || b for strings and undefined
OrElse(a, b) == IF a = Undefined \/ a = Text(<<>>) THEN b ELSE a

\* a ?? b
Nullish(a, b) == IF a = Undefined THEN b ELSE a

DataScheme == <<"d", "a", "t", "a", ":">>

\* fromDataUrl taking the encoding in any case
fromDataUrlAnyCase(dataUrl, forcedType) ==
  IF ~startsWith(dataUrl, DataScheme) THEN ThrowError(<<"I", "n", "v", "a", "l", "i", "d", " ", "d", "a", "t", "a", " ", "U", "R", "L">>)
  ELSE LET parts == splitLimit(slice(dataUrl, 5), ",", 2)
           payload == Destructure(parts, 2)
           typed == splitLimit(parts[1], ";", 2)
           type == Destructure(typed, 1)
           encoding == Destructure(typed, 2)
       IN IF BlobType(StringOf(encoding)) # <<"b", "a", "s", "e", "6", "4">>
          THEN ThrowError(<<"U", "n", "s", "u", "p", "p", "o", "r", "t", "e", "d", " ", "e", "n", "c", "o", "d", "i", "n", "g", ":", " ">> \o StringOf(encoding))
          ELSE blobFromBase64(payload, Nullish(forcedType, Nullish(type, Text(OctetStream))))

\* blob.fromDataUrl(dataUrl, forcedType), forcedType a string or undefined
fromDataUrl(dataUrl, forcedType) ==
  IF ~startsWith(dataUrl, DataScheme) THEN ThrowError(<<"I", "n", "v", "a", "l", "i", "d", " ", "d", "a", "t", "a", " ", "U", "R", "L">>)
  ELSE LET parts == splitLimit(slice(dataUrl, 5), ",", 2)
           payload == Destructure(parts, 2)
           typed == splitLimit(parts[1], ";", 2)
           type == Destructure(typed, 1)
           encoding == Destructure(typed, 2)
       IN IF encoding # Text(<<"b", "a", "s", "e", "6", "4">>)
          THEN ThrowError(<<"U", "n", "s", "u", "p", "p", "o", "r", "t", "e", "d", " ", "e", "n", "c", "o", "d", "i", "n", "g", ":", " ">> \o StringOf(encoding))
          ELSE blobFromBase64(payload, Nullish(forcedType, Nullish(type, Text(OctetStream))))

\* blob.toDataUrl(blob), the promise awaited
toDataUrl(blob) ==
  Text(DataScheme \o blob.type \o <<";", "b", "a", "s", "e", "6", "4", ",">> \o base64Encode(blob.bytes, FALSE).text)

(***************************************************************************)
(* listen: elm is the event listener list of the element, each entry a     *)
(* type, a callback, a capture flag and a once flag                        *)
(***************************************************************************)
\* the capture flag of the options of addEventListener / removeEventListener
Capture(options) ==
  IF options.kind = "boolean" THEN options.value
  ELSE IF options.kind = "object" THEN options.capture
  ELSE FALSE

\* the once flag of the options of addEventListener
Once(options) == options.kind = "object" /\ options.once

SameListener(l, type, callback, capture) ==
  l.type = type /\ l.callback = callback /\ l.capture = capture

\* elm.addEventListener(type, callback, options): no second entry of the same type,
\* callback and capture flag
addEventListener(list, type, callback, options) ==
  IF \E l \in list : SameListener(l, type, callback, Capture(options)) THEN list
  ELSE list \cup {[type |-> type, callback |-> callback,
                   capture |-> Capture(options), once |-> Once(options)]}

\* elm.removeEventListener(type, callback, options)
removeEventListener(list, type, callback, options) ==
  {l \in list : ~SameListener(l, type, callback, Capture(options))}

\* the function listen returns
CleanupFn == [kind |-> "function", name |-> "cleanup"]

(***************************************************************************)
(* paths                                                                   *)
(***************************************************************************)
Null == [kind |-> "null"]

\* s[i], undefined outside the string
CharAt(s, i) == IF i \in 0..(Len(s) - 1) THEN Text(<<s[i + 1]>>) ELSE Undefined

\* str.slice(start, end) for start and end that are not negative
sliceTo(str, start, end) ==
  LET from == IF start < Len(str) THEN start ELSE Len(str)
      to == IF end < Len(str) THEN end ELSE Len(str)
  IN IF to <= from THEN <<>> ELSE SubSeq(str, from + 1, to)

\* for (; s[i] === "/" && i < s.length; i++) { }
RECURSIVE SkipLeading(_, _)
SkipLeading(s, i) ==
  IF CharAt(s, i) = Text(<<"/">>) /\ i < Len(s) THEN SkipLeading(s, i + 1) ELSE i

\* the second loop stopping after one "/"
SkipTrailingOne(s, j) ==
  IF CharAt(s, j) = Text(<<"/">>) /\ j >= 0 THEN j - 1 ELSE j

\* for (; s[j] === "/" && j >= 0; j--) { }
RECURSIVE SkipTrailing(_, _)
SkipTrailing(s, j) ==
  IF CharAt(s, j) = Text(<<"/">>) /\ j >= 0 THEN SkipTrailing(s, j - 1) ELSE j

\* trimSlashes(s)
trimSlashes(s) ==
  LET i == SkipLeading(s, 0)
      j == SkipTrailing(s, Len(s) - 1)
  IN sliceTo(s, i, j + 1)

\* a value that is not falsy: a string that is not empty
Truthy(v) == v.kind = "text" /\ v.text # <<>>

\* v && trimSlashes(v)
AndTrim(v) == IF Truthy(v) THEN Text(trimSlashes(v.text)) ELSE v

\* path.push(v) for every string, the empty one too
PushIfString(path, v) == IF v.kind = "text" THEN Append(path, v.text) ELSE path

\* v && path.push(v)
PushIfTruthy(path, v) == IF Truthy(v) THEN Append(path, v.text) ELSE path

\* the loop of joinPath from argument i on
RECURSIVE PathLoop(_, _, _)
PathLoop(args, i, path) ==
  IF i > Len(args) THEN path
  ELSE PathLoop(args, i + 1, PushIfTruthy(path, AndTrim(args[i])))

\* parts.join(sep)
RECURSIVE arrayJoin(_, _)
arrayJoin(parts, sep) ==
  IF parts = <<>> THEN <<>>
  ELSE IF Len(parts) = 1 THEN parts[1]
  ELSE parts[1] \o sep \o arrayJoin(Tail(parts), sep)

\* joinPath(...args)
joinPath(args) == Text(arrayJoin(PathLoop(args, 1, <<>>), <<"/">>))

(***************************************************************************)
(* delay and wait: one timer; log holds an entry for every invocation of   *)
(* fn, every call of cancel, every timeout and every abort                 *)
(***************************************************************************)
\* clearTimeout leaving the timer pending
clearTimeoutLate(t) == t

\* clearTimeout(tid): a pending timer never fires, any other is left as it is
clearTimeout(t) == IF t = "pending" THEN "cleared" ELSE t

\* the function delay returns
CancelFn == [kind |-> "function", name |-> "cancel"]

\* an entry of log
Event(event, returned) == [event |-> event, returned |-> returned]

\* () => (clearTimeout(tid), !done): the entry a call of it leaves
CancelEvent(doneNow) == Event("cancel", [kind |-> "boolean", value |-> ~doneNow])

\* the number of entries of log of one event
Count(event) == Cardinality({i \in 1..Len(log) : log[i].event = event})

\* promises: "pending", "fulfilled" with a value or "rejected" with a reason
NoPromise == [state |-> "none", value |-> Undefined]

Pending == [state |-> "pending", value |-> Undefined]

Fulfilled(value) == [state |-> "fulfilled", value |-> value]

Rejected(reason) == [state |-> "rejected", value |-> reason]

\* resolve(value) of the promise p: nothing once p is settled
resolve(p, value) == IF p.state = "pending" THEN Fulfilled(value) ELSE p

\* reject settling a promise that is settled already
rejectAgain(p, reason) == Rejected(reason)

\* reject(reason) of the promise p: nothing once p is settled
reject(p, reason) == IF p.state = "pending" THEN Rejected(reason) ELSE p

\* the value a rejection or an abort carries
Reason(name) == [kind |-> "error", name |-> name]

\* the promise wait returns
PromiseRef == [kind |-> "promise"]

(***************************************************************************)
(* promise: resultOf, tryMe and allOf.  The promises handed over settle    *)
(* before or after the call, each settlement an entry of log; a reaction   *)
(* job is queued for a source when it is settled and subscribed to.        *)
(***************************************************************************)
\* function result(val, err): the pair [val, err]
result(val, err) == [kind |-> "pair", elems |-> <<val, err>>]

\* get val() { return this[0] }
getVal(res) == res.elems[1]

\* get err() { return this[1] }
getErr(res) == res.elems[2]

\* .then((val) => result(val, undefined)) of a settled promise
thenResult(p) ==
  IF p.state = "fulfilled" THEN Fulfilled(result(p.value, Undefined)) ELSE p

\* the catch handler putting the error first
catchResultFirst(p) ==
  IF p.state = "rejected" THEN Fulfilled(result(p.value, Undefined)) ELSE p

\* .catch((err) => result(undefined, err)) of a settled promise
catchResult(p) ==
  IF p.state = "rejected" THEN Fulfilled(result(Undefined, p.value)) ELSE p

\* the value source i fulfils with and the reason it rejects with
ValueOf(i) == [kind |-> "value", of |-> i]

ErrorOf(i) == [kind |-> "reason", of |-> i]

\* what source i can settle to
Outcomes(i) == {Fulfilled(ValueOf(i)), Fulfilled(Undefined), Rejected(ErrorOf(i))}

\* the sources that are settled, in the order of the arguments: the jobs queued
\* when the operation subscribes to every source
Subscribe(srcs) ==
  LET RECURSIVE From(_)
      From(i) == IF i > Len(srcs) THEN <<>>
                 ELSE (IF srcs[i].state # "pending" THEN <<i>> ELSE <<>>) \o From(i + 1)
  IN From(1)

\* a value that is a promise: source i
PromiseValue(i) == [kind |-> "promise", source |-> i]

IsPromise(v) == v.kind = "promise"

\* a function by what a call of it does: it returns a value or throws one
Function(does, value) == [kind |-> "function", does |-> does, value |-> value]

\* what tryMe resolves its promise with: the value itself, or for a function that
\* returns the value it returns
Returned(callback) ==
  IF callback.kind = "function" THEN callback.value ELSE callback

\* tryMe calling the function without the arguments
tryMeBare(callback, args) ==
  IF callback.kind = "function"
  THEN [calls |-> <<Event("fn", <<>>)>>,
        promise |-> IF callback.does = "throw" THEN Rejected(callback.value)
                    ELSE IF IsPromise(callback.value) THEN Pending
                    ELSE Fulfilled(callback.value)]
  ELSE [calls |-> <<>>,
        promise |-> IF IsPromise(callback) THEN Pending ELSE Fulfilled(callback)]

\* tryMe(callback, ...args): the calls of the function it makes and the promise it
\* returns, pending when it is resolved with a promise
tryMe(callback, args) ==
  IF callback.kind = "function"
  THEN [calls |-> <<Event("fn", args)>>,
        promise |-> IF callback.does = "throw" THEN Rejected(callback.value)
                    ELSE IF IsPromise(callback.value) THEN Pending
                    ELSE Fulfilled(callback.value)]
  ELSE [calls |-> <<>>,
        promise |-> IF IsPromise(callback) THEN Pending ELSE Fulfilled(callback)]

\* an array of values
Array(elems) == [kind |-> "array", elems |-> elems]

\* the array Promise.all fulfils with, from the back
valuesReversed(srcs) == [i \in 1..Len(srcs) |-> srcs[Len(srcs) + 1 - i].value]

\* the array Promise.all fulfils with: the value of source i at index i
values(srcs) == [i \in 1..Len(srcs) |-> srcs[i].value]

\* Promise.all(values) before any reaction: fulfilled at once for no values
promiseAll(srcs) == IF srcs = <<>> THEN Fulfilled(Array(<<>>)) ELSE Pending

\* the reaction of Promise.all to source i, the sources in seen reacted to: a
\* rejection rejects, the last fulfilment fulfils
promiseAllReact(p, srcs, seen, i) ==
  IF srcs[i].state = "rejected" THEN reject(p, srcs[i].value)
  ELSE IF seen \cup {i} = DOMAIN srcs THEN resolve(p, Array(values(srcs)))
  ELSE p

\* how many promises an operation is handed
NumSources(o, a) ==
  IF o = "resultOf" THEN 1
  ELSE IF o = "tryMe" /\ IsPromise(Returned(a.callback)) THEN 1
  ELSE IF o = "allOf" THEN a.n
  ELSE 0

(***************************************************************************)
(* collections: heap maps a BetterSet object to the values it holds; "S"   *)
(* is the set the method is called on, "R" the set a call creates          *)
(***************************************************************************)
SetMethods == {"clone", "toggle", "subtract", "merge", "intersect"}

\* clone() handing back the set itself
cloneSelf(h, this) == [heap |-> h, ref |-> this]

\* clone(): new this.constructor(this)
clone(h, this) == [heap |-> h @@ ("R" :> h[this]), ref |-> "R"]

\* new this.constructor<T>()
construct(h) == [heap |-> h @@ ("R" :> {}), ref |-> "R"]

\* the callbacks handed to op, applied to the values held by s and by this
fn(method, s, this, v) ==
  IF method = "toggle" THEN (IF v \in s THEN s \ {v} ELSE s \cup {v})
  ELSE IF method = "subtract" THEN s \ {v}
  ELSE IF method = "merge" THEN s \cup {v}
  ELSE IF v \in this THEN s \cup {v} ELSE s

\* function op(s, it, fn): for (const v of it) fn(s, v), on the values s holds
RECURSIVE opLoop(_, _, _, _)
opLoop(method, s, this, it) ==
  IF it = <<>> THEN s
  ELSE opLoop(method, fn(method, s, this, Head(it)), this, Tail(it))

\* S.method(it): the heap after the call and the set returned
callMethod(h, method, it) ==
  IF method = "clone" THEN clone(h, "S")
  ELSE LET made == IF method = "intersect" THEN construct(h) ELSE clone(h, "S")
       IN [heap |-> [made.heap EXCEPT
                       ![made.ref] = opLoop(method, made.heap[made.ref], h["S"], it)],
           ref |-> made.ref]

\* a reference to a BetterSet
SetRef(ref) == [kind |-> "set", ref |-> ref]

(***************************************************************************)
(* Inputs                                                                  *)
(***************************************************************************)
SeqsUpTo(S, n) == UNION {[1..k -> S] : k \in 0..n}

PayloadSample == {0, 7, 255}

Payloads == SeqsUpTo(PayloadSample, MaxPayloadLen)

\* pad lengths: in range (both header bytes in use) and below it
PadLens == {-3, -2, -1, 0, 1, 2, 255, 256, 257, 300}

\* the largest length of the range and the first one past it, with few payloads
WideLens == {65535, 65536}

WidePayloads == {<<>>, <<7>>}

PadInputs ==
  {[buf |-> b, len |-> n] : b \in Payloads, n \in PadLens}
    \cup {[buf |-> b, len |-> n] : b \in WidePayloads, n \in WideLens}

PadRandInputs == {[buf |-> b, rand |-> r] : b \in Payloads, r \in 0..255}

\* a typed array handed to concat: `size` elements of ArrayBuffer, of which the
\* view shows `len` from element `off` on
ViewShapes ==
  {[size |-> n, off |-> o, len |-> l] :
     n \in 0..MaxBufLen, o \in 0..MaxBufLen, l \in 0..MaxBufLen}

FittingShapes == {sh \in ViewShapes : sh.off + sh.len <= sh.size}

\* the j-th argument: every byte of every argument's buffer is different
MkArg(ctor, j, sh) ==
  TypedArray(ctor,
             [i \in 1..(sh.size * BYTES_PER_ELEMENT(ctor)) |-> 16 * j + i],
             sh.off * BYTES_PER_ELEMENT(ctor),
             sh.len)

ConcatInputs ==
  {[bufs |-> [j \in 1..Len(shs) |-> MkArg(c, j, shs[j])]] :
     c \in Ctors, shs \in SeqsUpTo(FittingShapes, MaxBufs)}

ByteSample == {0, 1, 15, 16, 128, 248, 255}

ByteSeqs == SeqsUpTo(ByteSample, MaxLen)

\* hexadecimal digits of both cases, letters that are none, a sign, a space
HexTextSample == {"0", "1", "9", "a", "f", "A", "F", "g", "z", "x", "-", " "}

HexTexts == SeqsUpTo(HexTextSample, MaxTextLen)

HexEncodeInputs == {[bytes |-> b] : b \in ByteSeqs}

HexDecodeInputs == {[text |-> t] : t \in HexTexts}

Base64EncodeInputs == {[bytes |-> b, urlSafe |-> u] : b \in ByteSeqs, u \in BOOLEAN}

\* characters of the standard alphabet, of the URL-safe one, padding, white space
\* and a character of neither alphabet
Base64TextSample == {"A", "+", "/", "-", "_", "=", "!", " "}

Base64Texts == SeqsUpTo(Base64TextSample, MaxB64Len)

Base64DecodeInputs == {[text |-> t, urlSafe |-> u] : t \in Base64Texts, u \in BOOLEAN}

BlobTypeSample == {Undefined, Text(<<"T", "e", "x", "t", "/", "P", "l", "a", "i", "n">>)}

FromBase64Inputs == {[text |-> t, type |-> ty] : t \in Base64Texts, ty \in BlobTypeSample}

\* one code point of each encoded length, the byte order mark and an unpaired
\* surrogate
CodePointSample == {65, 233, 8364, BOM, 128512, 55357}

Strings == SeqsUpTo(CodePointSample, MaxStrLen)

Utf8EncodeInputs == {[text |-> t] : t \in Strings}

\* the start of the string: the scheme of a data URL, another scheme, none
SchemeSample == {DataScheme, <<"h", "t", "t", "p", ":">>, <<>>}

MimeSample == {<<>>, <<"a", "/", "b">>, <<"A", "/", "b">>}

TokenSample == {<<"b", "a", "s", "e", "6", "4">>, <<"B", "A", "S", "E", "6", "4">>, <<"u", "t", "f", "8">>, <<>>}

\* the tokens each led by ";"
RECURSIVE Params(_)
Params(tokens) ==
  IF tokens = <<>> THEN <<>>
  ELSE <<";">> \o tokens[1] \o Params(SubSeq(tokens, 2, Len(tokens)))

\* no payload part, an empty payload, payloads with and without padding, a payload
\* with a second "," and one that is no base64
PayloadPartSample ==
  {<<>>, <<",">>, <<",", "A", "A">>, <<",", "/", "w", "=", "=">>, <<",", "A", "A", ",", "A">>, <<",", "!">>}

ForcedTypeSample == {Undefined, Text(<<>>), Text(<<"X", "/", "y">>)}

FromDataUrlInputs ==
  {[dataUrl |-> scheme \o mime \o Params(tokens) \o payloadPart, forcedType |-> f] :
     scheme \in SchemeSample, mime \in MimeSample,
     tokens \in SeqsUpTo(TokenSample, MaxParams),
     payloadPart \in PayloadPartSample, f \in ForcedTypeSample}

\* types a Blob can have: none, a bare one, one with a parameter, one with a ","
StoredTypeSample ==
  {<<>>, <<"a", "/", "b">>, <<"a", "/", "b", ";", "c", "=", "d">>, <<"a", ",", "b">>}

ToDataUrlInputs ==
  {[blob |-> Blob(bytes, type)] : bytes \in Payloads, type \in StoredTypeSample}

EventTypes == {"click", "keydown"}

\* options of listen: none, a boolean, an object
OptionsSample ==
  {Undefined}
    \cup {[kind |-> "boolean", value |-> b] : b \in BOOLEAN}
    \cup {[kind |-> "object", capture |-> c, once |-> o] : c \in BOOLEAN, o \in BOOLEAN}

ListenInputs ==
  {[type |-> t, listener |-> "listener", options |-> o] :
     t \in EventTypes, o \in OptionsSample}

PathCharSample == {"/", "a", "b"}

TrimSlashesInputs == {[s |-> s] : s \in SeqsUpTo(PathCharSample, MaxPathLen)}

\* arguments of joinPath: no value, empty, slashes alone, segments with slashes
\* before, after and inside
PathArgSample ==
  {Undefined, Null} \cup
  {Text(s) : s \in {<<>>, <<"/">>, <<"/", "/">>, <<"a">>, <<"b">>, <<"/", "a", "/">>,
                    <<"a", "/", "b">>, <<"/", "/", "b", "/", "/", "a", "/">>}}

JoinPathInputs == {[args |-> a] : a \in SeqsUpTo(PathArgSample, MaxArgs)}

\* delay: the time and whether fn calls cancel itself
DelayInputs == {[ms |-> ms, fnCancels |-> c] : ms \in {0, 1000}, c \in BOOLEAN}

\* wait: the time and whether a controller is handed over
WaitInputs == {[ms |-> ms, abort |-> a] : ms \in {0, 1000}, a \in BOOLEAN}

\* reasons handed to controller.abort
AbortReasons == {Reason("AbortError"), Reason("stop")}

ResultOfInputs == {[p |-> 1]}

\* values that are no function and no promise
PlainValues == {Undefined, Null, ValueOf(0)}

\* tryMe: a function that returns a value or a promise or throws, a plain value,
\* a promise; with and without arguments for the function
Callbacks ==
  {Function("return", v) : v \in PlainValues \cup {PromiseValue(1)}}
    \cup {Function("throw", ErrorOf(0))}
    \cup PlainValues \cup {PromiseValue(1)}

TryMeInputs ==
  {[callback |-> c, args |-> a] : c \in Callbacks, a \in {<<>>, <<ValueOf(2), ValueOf(3)>>}}

AllOfInputs == {[n |-> n] : n \in 0..MaxInputs}

SetValues == {1, 2}

\* what the iterator yields, a value more than once too
Yields == SeqsUpTo(SetValues, MaxYield)

BetterSetInputs == {[S |-> S, it |-> it] : S \in SUBSET SetValues, it \in Yields}

(***************************************************************************)
(* The calls                                                               *)
(***************************************************************************)
Init ==
  /\ pc = "call"
  /\ ret = None
  /\ randCalls = 0
  /\ elm = {}
  /\ invoked = <<>>
  /\ timer = "none"
  /\ done = FALSE
  /\ log = <<>>
  /\ promise = NoPromise
  /\ signal = [aborted |-> FALSE, reason |-> Undefined, listeners |-> 0]
  /\ queue = <<>>
  /\ reacted = {}
  /\ \/ op = "pad" /\ arg \in PadInputs
     \/ op = "padRand" /\ arg \in PadRandInputs
     \/ op = "concat" /\ arg \in ConcatInputs
     \/ op = "hex.encode" /\ arg \in HexEncodeInputs
     \/ op = "hex.decode" /\ arg \in HexDecodeInputs
     \/ op = "base64.encode" /\ arg \in Base64EncodeInputs
     \/ op = "base64.decode" /\ arg \in Base64DecodeInputs
     \/ op = "blob.fromBase64" /\ arg \in FromBase64Inputs
     \/ op = "utf8.encode" /\ arg \in Utf8EncodeInputs
     \/ op = "blob.fromDataUrl" /\ arg \in FromDataUrlInputs
     \/ op = "blob.toDataUrl" /\ arg \in ToDataUrlInputs
     \/ op = "listen" /\ arg \in ListenInputs
     \/ op = "trimSlashes" /\ arg \in TrimSlashesInputs
     \/ op = "joinPath" /\ arg \in JoinPathInputs
     \/ op = "delay" /\ arg \in DelayInputs
     \/ op = "wait" /\ arg \in WaitInputs
     \/ op = "resultOf" /\ arg \in ResultOfInputs
     \/ op = "tryMe" /\ arg \in TryMeInputs
     \/ op = "allOf" /\ arg \in AllOfInputs
     \/ op \in SetMethods /\ arg \in BetterSetInputs
  /\ sources = [i \in 1..NumSources(op, arg) |-> Pending]
  /\ heap = IF op \in SetMethods THEN "S" :> arg.S ELSE <<>>

Concat ==
  /\ pc = "call" /\ op = "concat"
  /\ ret' = concat(arg.bufs)
  /\ pc' = "done"
  /\ UNCHANGED <<op, arg, randCalls, elm, invoked, asyncVars, heap>>

Pad ==
  /\ pc = "call" /\ op = "pad"
  /\ ret' = pad(arg.buf, arg.len)
  /\ pc' = "done"
  /\ UNCHANGED <<op, arg, randCalls, elm, invoked, asyncVars, heap>>

PadRand ==
  /\ pc = "call" /\ op = "padRand"
  /\ randCalls' = randCalls + 1
  /\ ret' = padRand(arg.buf, arg.rand)
  /\ pc' = "done"
  /\ UNCHANGED <<op, arg, elm, invoked, asyncVars, heap>>

HexEncode ==
  /\ pc = "call" /\ op = "hex.encode"
  /\ ret' = hexEncode(arg.bytes)
  /\ pc' = "done"
  /\ UNCHANGED <<op, arg, randCalls, elm, invoked, asyncVars, heap>>

HexDecode ==
  /\ pc = "call" /\ op = "hex.decode"
  /\ ret' = hexDecode(arg.text)
  /\ pc' = "done"
  /\ UNCHANGED <<op, arg, randCalls, elm, invoked, asyncVars, heap>>

Base64Encode ==
  /\ pc = "call" /\ op = "base64.encode"
  /\ ret' = base64Encode(arg.bytes, arg.urlSafe)
  /\ pc' = "done"
  /\ UNCHANGED <<op, arg, randCalls, elm, invoked, asyncVars, heap>>

Base64Decode ==
  /\ pc = "call" /\ op = "base64.decode"
  /\ ret' = base64Decode(arg.text, arg.urlSafe)
  /\ pc' = "done"
  /\ UNCHANGED <<op, arg, randCalls, elm, invoked, asyncVars, heap>>

FromBase64 ==
  /\ pc = "call" /\ op = "blob.fromBase64"
  /\ ret' = blobFromBase64(Text(arg.text), arg.type)
  /\ pc' = "done"
  /\ UNCHANGED <<op, arg, randCalls, elm, invoked, asyncVars, heap>>

Utf8Encode ==
  /\ pc = "call" /\ op = "utf8.encode"
  /\ ret' = utf8Encode(arg.text)
  /\ pc' = "done"
  /\ UNCHANGED <<op, arg, randCalls, elm, invoked, asyncVars, heap>>

FromDataUrl ==
  /\ pc = "call" /\ op = "blob.fromDataUrl"
  /\ ret' = fromDataUrl(arg.dataUrl, arg.forcedType)
  /\ pc' = "done"
  /\ UNCHANGED <<op, arg, randCalls, elm, invoked, asyncVars, heap>>

ToDataUrl ==
  /\ pc = "call" /\ op = "blob.toDataUrl"
  /\ ret' = toDataUrl(arg.blob)
  /\ pc' = "done"
  /\ UNCHANGED <<op, arg, randCalls, elm, invoked, asyncVars, heap>>

\* listen(elm, type, listener, options)
Listen ==
  /\ pc = "call" /\ op = "listen"
  /\ elm' = addEventListener(elm, arg.type, arg.listener, arg.options)
  /\ ret' = CleanupFn
  /\ pc' = "listening"
  /\ UNCHANGED <<op, arg, randCalls, invoked, asyncVars, heap>>

\* the function listen returned, called once
Cleanup ==
  /\ pc = "listening" /\ ret = CleanupFn
  /\ elm' = removeEventListener(elm, arg.type, arg.listener, Undefined)
  /\ pc' = "cleaned"
  /\ UNCHANGED <<op, arg, ret, randCalls, invoked, asyncVars, heap>>

\* elm.dispatchEvent(new Event(type)): every listener of the type is invoked, in
\* invoked the phase it was invoked in, and a once listener is removed
Dispatch ==
  /\ pc \in {"listening", "cleaned"}
  /\ Len(invoked) < MaxInvoked
  /\ \E type \in EventTypes :
       LET called == {l \in elm : l.type = type}
       IN /\ invoked' = invoked \o [i \in 1..Cardinality(called) |-> pc]
          /\ elm' = {l \in elm : ~(l \in called /\ l.once)}
  /\ UNCHANGED <<pc, op, arg, ret, randCalls, asyncVars, heap>>

TrimSlashes ==
  /\ pc = "call" /\ op = "trimSlashes"
  /\ ret' = Text(trimSlashes(arg.s))
  /\ pc' = "done"
  /\ UNCHANGED <<op, arg, randCalls, elm, invoked, asyncVars, heap>>

JoinPath ==
  /\ pc = "call" /\ op = "joinPath"
  /\ ret' = joinPath(arg.args)
  /\ pc' = "done"
  /\ UNCHANGED <<op, arg, randCalls, elm, invoked, asyncVars, heap>>

\* delay(ms, fn)
Delay ==
  /\ pc = "call" /\ op = "delay"
  /\ done' = FALSE
  /\ timer' = "pending"
  /\ ret' = CancelFn
  /\ pc' = "delayed"
  /\ UNCHANGED <<op, arg, randCalls, elm, invoked, log, promise, signal, sourceVars, heap>>

\* the timer of delay fires: done is set, fn runs, and fn may call cancel
DelayTimeout ==
  /\ op = "delay" /\ timer = "pending"
  /\ done' = TRUE
  /\ timer' = IF arg.fnCancels THEN clearTimeout("fired") ELSE "fired"
  /\ log' = log \o <<Event("fn", Undefined)>>
                \o (IF arg.fnCancels THEN <<CancelEvent(done')>> ELSE <<>>)
  /\ UNCHANGED <<pc, op, arg, ret, randCalls, elm, invoked, promise, signal, sourceVars, heap>>

\* the function delay returned is called
Cancel ==
  /\ pc = "delayed" /\ ret = CancelFn
  /\ Count("cancel") < MaxCancels
  /\ timer' = clearTimeout(timer)
  /\ log' = Append(log, CancelEvent(done))
  /\ UNCHANGED <<pc, op, arg, ret, randCalls, elm, invoked, done, promise, signal, sourceVars, heap>>

\* wait(ms, abort): the executor starts the timer and registers the abort listener
Wait ==
  /\ pc = "call" /\ op = "wait"
  /\ promise' = Pending
  /\ timer' = "pending"
  /\ signal' = IF arg.abort THEN [signal EXCEPT !.listeners = 1] ELSE signal
  /\ log' = Append(log, Event("wait", Undefined))
  /\ ret' = PromiseRef
  /\ pc' = "waiting"
  /\ UNCHANGED <<op, arg, randCalls, elm, invoked, done, sourceVars, heap>>

\* the timer of wait fires
WaitTimeout ==
  /\ op = "wait" /\ timer = "pending"
  /\ timer' = "fired"
  /\ promise' = resolve(promise, Undefined)
  /\ log' = Append(log, Event("timeout", Undefined))
  /\ UNCHANGED <<pc, op, arg, ret, randCalls, elm, invoked, done, signal, sourceVars, heap>>

\* controller.abort(reason), before or after wait is called: a signal that is not
\* aborted yet takes the reason and runs its listener, which is then removed
Abort ==
  /\ op = "wait" /\ arg.abort
  /\ Count("abort") < MaxAborts
  /\ \E reason \in AbortReasons :
       /\ log' = Append(log, Event("abort", reason))
       /\ IF signal.aborted
          THEN UNCHANGED <<signal, timer, promise>>
          ELSE /\ signal' = [aborted |-> TRUE, reason |-> reason, listeners |-> 0]
               /\ IF signal.listeners = 1
                  THEN /\ timer' = clearTimeout(timer)
                       /\ promise' = reject(promise, reason)
                  ELSE UNCHANGED <<timer, promise>>
  /\ UNCHANGED <<pc, op, arg, ret, randCalls, elm, invoked, done, sourceVars, heap>>

\* a promise handed to the operation is fulfilled or rejected, before the call or
\* after it; once the operation has subscribed, its reaction job is queued
SettleSource ==
  /\ pc \in {"call", "awaiting"}
  /\ \E i \in 1..Len(sources) : \E outcome \in Outcomes(i) :
       /\ sources[i].state = "pending"
       /\ sources' = [sources EXCEPT ![i] = outcome]
       /\ log' = Append(log, Event("settle", [source |-> i, outcome |-> outcome]))
       /\ queue' = IF pc = "awaiting" THEN Append(queue, i) ELSE queue
  /\ UNCHANGED <<pc, op, arg, ret, randCalls, elm, invoked, timer, done, promise,
                 signal, reacted, heap>>

\* resultOf(p)
ResultOf ==
  /\ pc = "call" /\ op = "resultOf"
  /\ promise' = Pending
  /\ queue' = Subscribe(sources)
  /\ log' = Append(log, Event("call", Undefined))
  /\ ret' = PromiseRef
  /\ pc' = "awaiting"
  /\ UNCHANGED <<op, arg, randCalls, elm, invoked, timer, done, signal, sources,
                 reacted, heap>>

\* the handlers of resultOf run for the settled p
ResultOfReaction ==
  /\ op = "resultOf" /\ queue # <<>>
  /\ promise' = catchResult(thenResult(sources[Head(queue)]))
  /\ queue' = Tail(queue)
  /\ reacted' = reacted \cup {Head(queue)}
  /\ UNCHANGED <<pc, op, arg, ret, randCalls, elm, invoked, timer, done, log,
                 signal, sources, heap>>

\* tryMe(callback, ...args)
TryMe ==
  /\ pc = "call" /\ op = "tryMe"
  /\ promise' = tryMe(arg.callback, arg.args).promise
  /\ queue' = IF IsPromise(Returned(arg.callback)) /\ promise'.state = "pending"
              THEN Subscribe(sources) ELSE <<>>
  /\ log' = log \o <<Event("call", Undefined)>> \o tryMe(arg.callback, arg.args).calls
  /\ ret' = PromiseRef
  /\ pc' = "awaiting"
  /\ UNCHANGED <<op, arg, randCalls, elm, invoked, timer, done, signal, sources,
                 reacted, heap>>

\* the promise tryMe was resolved with has settled: its promise follows
TryMeReaction ==
  /\ op = "tryMe" /\ queue # <<>>
  /\ promise' = IF promise.state = "pending" THEN sources[Head(queue)] ELSE promise
  /\ queue' = Tail(queue)
  /\ reacted' = reacted \cup {Head(queue)}
  /\ UNCHANGED <<pc, op, arg, ret, randCalls, elm, invoked, timer, done, log,
                 signal, sources, heap>>

\* allOf(...values)
AllOf ==
  /\ pc = "call" /\ op = "allOf"
  /\ promise' = promiseAll(sources)
  /\ queue' = Subscribe(sources)
  /\ log' = Append(log, Event("call", Undefined))
  /\ ret' = PromiseRef
  /\ pc' = "awaiting"
  /\ UNCHANGED <<op, arg, randCalls, elm, invoked, timer, done, signal, sources,
                 reacted, heap>>

\* Promise.all reacts to the next settled value
AllOfReaction ==
  /\ op = "allOf" /\ queue # <<>>
  /\ promise' = promiseAllReact(promise, sources, reacted, Head(queue))
  /\ queue' = Tail(queue)
  /\ reacted' = reacted \cup {Head(queue)}
  /\ UNCHANGED <<pc, op, arg, ret, randCalls, elm, invoked, timer, done, log,
                 signal, sources, heap>>

\* S.method(it) for the method that op names
SetCall(method) ==
  /\ pc = "call" /\ op = method
  /\ heap' = callMethod(heap, method, arg.it).heap
  /\ ret' = SetRef(callMethod(heap, method, arg.it).ref)
  /\ pc' = "returned"
  /\ UNCHANGED <<op, arg, randCalls, elm, invoked, asyncVars>>

Clone == SetCall("clone")

Toggle == SetCall("toggle")

Subtract == SetCall("subtract")

Merge == SetCall("merge")

Intersect == SetCall("intersect")

\* add(v) or delete(v) on S or on the set returned, after the call
Mutate ==
  /\ pc = "returned" /\ op \in SetMethods
  /\ Len(log) < MaxMutations
  /\ \E ref \in DOMAIN heap : \E v \in SetValues : \E add \in BOOLEAN :
       /\ heap' = [heap EXCEPT ![ref] = IF add THEN @ \cup {v} ELSE @ \ {v}]
       /\ log' = Append(log, Event("mutate", ref))
  /\ UNCHANGED <<pc, op, arg, ret, randCalls, elm, invoked, timer, done, promise,
                 signal, sourceVars>>

Next ==
  \/ Concat \/ Pad \/ PadRand
  \/ HexEncode \/ HexDecode
  \/ Base64Encode \/ Base64Decode
  \/ FromBase64 \/ Utf8Encode
  \/ FromDataUrl \/ ToDataUrl
  \/ Listen \/ Cleanup \/ Dispatch
  \/ TrimSlashes \/ JoinPath
  \/ Delay \/ DelayTimeout \/ Cancel
  \/ Wait \/ WaitTimeout \/ Abort
  \/ SettleSource
  \/ ResultOf \/ ResultOfReaction
  \/ TryMe \/ TryMeReaction
  \/ AllOf \/ AllOfReaction
  \/ Clone \/ Toggle \/ Subtract \/ Merge \/ Intersect \/ Mutate

Spec == Init /\ [][Next]_vars

(***************************************************************************)
(* Claims about the buffer helpers                                         *)
(***************************************************************************)
\* the concatenation of the elements every argument shows, in argument order
RECURSIVE AllElements(_)
AllElements(bufs) ==
  IF bufs = <<>> THEN <<>> ELSE Elements(Head(bufs)) \o AllElements(Tail(bufs))

\* C1: for n in 0..65535, pad(b, n) returns a frame of 2 + n + len(b) bytes whose
\* first two bytes read big-endian are n, followed by n zero bytes, followed by b.
PadFrameLayout ==
  (pc = "done" /\ op = "pad" /\ arg.len \in 0..65535) =>
     /\ ret.kind = "bytes"
     /\ Len(ret.bytes) = 2 + arg.len + Len(arg.buf)
     /\ GetUint16(ret.bytes, 0) = arg.len
     /\ \A i \in 3..(2 + arg.len) : ret.bytes[i] = 0
     /\ SubSeq(ret.bytes, 3 + arg.len, Len(ret.bytes)) = arg.buf

\* a pad call with the largest length of the range and a payload has returned
PadFrameLayoutWitness ==
  /\ pc = "done" /\ op = "pad"
  /\ arg.len = 65535 /\ arg.buf = <<7>>
  /\ ret.kind = "bytes" /\ ret.bytes[1] = 255 /\ ret.bytes[2] = 255
  /\ ret.bytes[65538] = 7

\* C4: concat of k >= 1 typed arrays of one element type, views over a part of a
\* larger ArrayBuffer included, returns a typed array of the first argument's type
\* holding the arguments' elements in argument order.
ConcatInOrder ==
  (pc = "done" /\ op = "concat" /\ Len(arg.bufs) >= 1) =>
     /\ ret.kind = "typedarray"
     /\ ret.ctor = arg.bufs[1].ctor
     /\ Elements(ret) = AllElements(arg.bufs)

\* C5: concat() returns undefined; concat of one or more typed arrays that are all
\* zero-length returns a zero-length typed array of the first argument's type.
ConcatNoneVsEmpty ==
  (pc = "done" /\ op = "concat") =>
     /\ Len(arg.bufs) = 0 => ret = Undefined
     /\ (Len(arg.bufs) >= 1 /\ \A j \in 1..Len(arg.bufs) : arg.bufs[j].length = 0) =>
          /\ ret.kind = "typedarray"
          /\ ret.ctor = arg.bufs[1].ctor
          /\ ret.length = 0

\* C6: pad(b, n) with n outside 0..65535 is rejected with an error: it returns no
\* frame (so none with a truncated header or an altered payload).
PadRejectsOutOfRange ==
  (pc = "done" /\ op = "pad" /\ arg.len \notin 0..65535) => ret.kind = "throw"

\* C7: padRand(b), with r the random byte drawn, returns pad(b, r): the header is r,
\* the frame has 2 + r + len(b) bytes (between 2 + len(b) and 257 + len(b)), and
\* one random byte was drawn.
PadRandIsPad ==
  (pc = "done" /\ op = "padRand") =>
     /\ ret = pad(arg.buf, arg.rand)
     /\ ret.kind = "bytes"
     /\ GetUint16(ret.bytes, 0) = arg.rand
     /\ Len(ret.bytes) = 2 + arg.rand + Len(arg.buf)
     /\ Len(ret.bytes) >= 2 + Len(arg.buf) /\ Len(ret.bytes) <= 257 + Len(arg.buf)
     /\ randCalls = 1

\* a padRand call that drew 255 for a payload has returned
PadRandIsPadWitness ==
  /\ pc = "done" /\ op = "padRand"
  /\ arg.rand = 255 /\ arg.buf = <<7, 255>>
  /\ randCalls = 1
  /\ Len(ret.bytes) = 259

(***************************************************************************)
(* Claims about the transcoders                                            *)
(***************************************************************************)
\* C2: for every byte sequence b and both values of urlSafe s,
\* base64.decode(base64.encode(b, s), s) is b.
Base64RoundTrip ==
  (pc = "done" /\ op = "base64.encode") =>
     /\ ret.kind = "text"
     /\ base64Decode(ret.text, arg.urlSafe) = Bytes(arg.bytes)

\* a URL-safe encoding of two bytes (padding stripped, "+" replaced) has returned
Base64RoundTripWitness ==
  /\ pc = "done" /\ op = "base64.encode"
  /\ arg.urlSafe /\ arg.bytes = <<248, 255>>
  /\ ret.text = <<"-", "P", "8">>

\* C3: for every byte sequence b, hex.decode(hex.encode(b)) is b.
HexRoundTrip ==
  (pc = "done" /\ op = "hex.encode") =>
     /\ ret.kind = "text"
     /\ hexDecode(ret.text) = Bytes(arg.bytes)

\* an encoding of bytes below and above 16 has returned
HexRoundTripWitness ==
  /\ pc = "done" /\ op = "hex.encode"
  /\ arg.bytes = <<0, 15, 255>>
  /\ ret.text = <<"0", "0", "0", "f", "f", "f">>

\* C8: hex.decode fails with an error whenever a two-character group of the
\* zero-left-padded input is not a pair of hexadecimal digits; it returns no bytes.
HexDecodeRejectsInvalid ==
  (/\ pc = "done" /\ op = "hex.decode"
   /\ \E i \in 1..(Len(hexPadOdd(arg.text)) \div 2) :
         \E k \in 1..2 : ~IsHexDigit(HexGroup(hexPadOdd(arg.text), i)[k]))
    => ret.kind = "throw"

\* C9: for every string h of hexadecimal digits of odd length, hex.decode(h) is
\* hex.decode("0" + h): ceil(len(h) / 2) bytes, the first one the value of h's
\* first digit.
HexDecodeOddLength ==
  (/\ pc = "done" /\ op = "hex.decode"
   /\ Len(arg.text) % 2 = 1
   /\ \A i \in 1..Len(arg.text) : IsHexDigit(arg.text[i]))
    => /\ ret = hexDecode(<<"0">> \o arg.text)
       /\ Len(ret.bytes) = (Len(arg.text) + 1) \div 2
       /\ ret.bytes[1] = DigitValue(arg.text[1])

\* a string of three hexadecimal digits has been decoded
HexDecodeOddLengthWitness ==
  /\ pc = "done" /\ op = "hex.decode"
  /\ arg.text = <<"f", "9", "A">>
  /\ ret.bytes = <<15, 154>>

\* C10: hex.encode(b) has 2 * len(b) characters, all of 0-9 and a-f, characters
\* 2i and 2i+1 the zero-padded base-16 rendering of byte i; the empty sequence
\* encodes to the empty string.
HexEncodeShape ==
  (pc = "done" /\ op = "hex.encode") =>
     /\ ret.kind = "text"
     /\ Len(ret.text) = 2 * Len(arg.bytes)
     /\ \A k \in 1..Len(ret.text) : \E v \in 1..16 : ret.text[k] = LowerHex[v]
     /\ \A i \in 1..Len(arg.bytes) :
          /\ ret.text[2 * i - 1] = LowerHex[(arg.bytes[i] \div 16) + 1]
          /\ ret.text[2 * i] = LowerHex[(arg.bytes[i] % 16) + 1]
     /\ arg.bytes = <<>> => ret.text = <<>>

\* an encoding with a byte below 16 and digits above 9 has returned
HexEncodeShapeWitness ==
  /\ pc = "done" /\ op = "hex.encode"
  /\ arg.bytes = <<15, 248>>
  /\ ret.text = <<"0", "f", "f", "8">>

\* C11: base64.encode(b, true) is base64.encode(b, false) with every "+" replaced
\* by "-", every "/" by "_" and every "=" removed; it holds no "+", "/" or "=".
UrlSafeOfStandard ==
  (pc = "done" /\ op = "base64.encode" /\ arg.urlSafe) =>
     LET standard == base64Encode(arg.bytes, FALSE).text
         unpadded == SelectSeq(standard, LAMBDA c : c # "=")
     IN /\ Len(ret.text) = Len(unpadded)
        /\ \A k \in 1..Len(unpadded) :
             ret.text[k] = IF unpadded[k] = "+" THEN "-"
                           ELSE IF unpadded[k] = "/" THEN "_"
                           ELSE unpadded[k]
        /\ \A k \in 1..Len(ret.text) : ret.text[k] \notin {"+", "/", "="}

\* a URL-safe encoding whose standard form holds "/" and padding has returned
UrlSafeOfStandardWitness ==
  /\ pc = "done" /\ op = "base64.encode"
  /\ arg.urlSafe /\ arg.bytes = <<255>>
  /\ base64Encode(arg.bytes, FALSE).text = <<"/", "w", "=", "=">>
  /\ ret.text = <<"_", "w">>

\* the string without the white space and the "=" at its end
RECURSIVE DropTrailingPadding(_)
DropTrailingPadding(str) ==
  IF str # <<>> /\ str[Len(str)] \in WhiteSpace \cup {"="}
  THEN DropTrailingPadding(SubSeq(str, 1, Len(str) - 1))
  ELSE str

\* letters and digits are the first 62 characters of the alphabet
IsAlnum(c) == \E v \in 1..62 : Base64Alphabet[v] = c

\* the "=" a string needs to reach a length that is a multiple of 4
PaddingFor(str) == [i \in 1..((4 - (Len(str) % 4)) % 4) |-> "="]

StandardDecodeNeedsPadding ==
  (/\ pc = "done" /\ op = "base64.decode" /\ ~arg.urlSafe
   /\ \A i \in 1..Len(arg.text) : IsBase64Char(arg.text[i])
   /\ Len(arg.text) % 4 \in {2, 3})
    => ret.kind = "throw"

\* C13 as amended: base64.decode(text, false) needs no padding: a standard-alphabet
\* text of length 2 or 3 modulo 4 decodes to the bytes of its padded form; only a
\* length of 1 modulo 4 is refused.
StandardDecodeRestoresPadding ==
  (/\ pc = "done" /\ op = "base64.decode" /\ ~arg.urlSafe
   /\ \A i \in 1..Len(arg.text) : IsBase64Char(arg.text[i]))
    => /\ Len(arg.text) % 4 \in {2, 3} =>
            /\ ret.kind = "bytes"
            /\ ret = base64Decode(arg.text \o PaddingFor(arg.text), FALSE)
       /\ Len(arg.text) % 4 = 1 => ret.kind = "throw"

\* a standard-mode call with a text of three alphabet characters has returned
StandardDecodeRestoresPaddingWitness ==
  /\ pc = "done" /\ op = "base64.decode"
  /\ ~arg.urlSafe /\ arg.text = <<"/", "/", "+">>
  /\ ret = Bytes(<<255, 255>>)

\* C14: blob.fromBase64 takes a base64 string without its trailing "=" and gives
\* the bytes it gives for the padded form.
FromBase64Unpadded ==
  (/\ pc = "done" /\ op = "blob.fromBase64"
   /\ \A i \in 1..Len(arg.text) : IsBase64Char(arg.text[i])
   /\ Len(arg.text) % 4 \in {2, 3})
    => /\ ret.kind = "blob"
       /\ ret = blobFromBase64(Text(arg.text \o PaddingFor(arg.text)), arg.type)
       /\ Len(ret.bytes) = (Len(arg.text) * 3) \div 4

\* a string of two characters, its "==" left out, has given a blob of one byte
FromBase64UnpaddedWitness ==
  /\ pc = "done" /\ op = "blob.fromBase64"
  /\ arg.text = <<"/", "A">>
  /\ ret.kind = "blob" /\ ret.bytes = <<252>>

\* C15: for every string t without unpaired surrogates, also one that begins with
\* U+FEFF, utf8.decode(utf8.encode(t)) = t.
Utf8RoundTrip ==
  (/\ pc = "done" /\ op = "utf8.encode"
   /\ \A i \in 1..Len(arg.text) : ~IsSurrogate(arg.text[i]))
    => utf8Decode(ret.bytes) = Text(arg.text)

\* the characters of str before the first c, all of str when it holds no c
RECURSIVE Before(_, _)
Before(str, c) ==
  IF str = <<>> \/ str[1] = c THEN <<>>
  ELSE <<str[1]>> \o Before(SubSeq(str, 2, Len(str)), c)

\* the characters of str after the first c
After(str, c) == SubSeq(str, Len(Before(str, c)) + 2, Len(str))

Has(str, c) == \E i \in 1..Len(str) : str[i] = c

\* what a data URL writes between "data:" and its first ","
Header(dataUrl) == Before(SubSeq(dataUrl, 6, Len(dataUrl)), ",")

\* the MIME type a data URL writes
MimeWritten(dataUrl) == Before(Header(dataUrl), ";")

\* the encoding token a data URL writes after its MIME type
EncodingToken(dataUrl) == Before(After(Header(dataUrl), ";"), ";")

\* a data URL of the form data:<type>;base64,<payload>
WellFormed(dataUrl) ==
  /\ startsWith(dataUrl, DataScheme)
  /\ Has(Header(dataUrl), ";")
  /\ EncodingToken(dataUrl) = <<"b", "a", "s", "e", "6", "4">>
  /\ Has(dataUrl, ",")

\* C16: for every string that starts with "data:" and whose encoding token is not
\* exactly "base64", blob.fromDataUrl throws 'Unsupported encoding: <token>' with
\* the token as written, and decodes nothing.
UnsupportedEncodingNamed ==
  (/\ pc = "done" /\ op = "blob.fromDataUrl"
   /\ startsWith(arg.dataUrl, DataScheme)
   /\ Has(Header(arg.dataUrl), ";")
   /\ EncodingToken(arg.dataUrl) # <<"b", "a", "s", "e", "6", "4">>)
    => ret = ThrowError(<<"U", "n", "s", "u", "p", "p", "o", "r", "t", "e", "d", " ", "e", "n", "c", "o", "d", "i", "n", "g", ":", " ">> \o EncodingToken(arg.dataUrl))

\* a data URL with the token "BASE64" and a decodable payload has been refused
UnsupportedEncodingNamedWitness ==
  /\ pc = "done" /\ op = "blob.fromDataUrl"
  /\ arg.dataUrl = <<"d", "a", "t", "a", ":", "a", "/", "b", ";", "B", "A", "S", "E", "6", "4", ",", "A", "A">>
  /\ ret.kind = "throw"
  /\ ret.message = <<"U", "n", "s", "u", "p", "p", "o", "r", "t", "e", "d", " ", "e", "n", "c", "o", "d", "i", "n", "g", ":", " ", "B", "A", "S", "E", "6", "4">>

\* C17: blob.fromDataUrl throws "Invalid data URL" for every string that does not
\* begin with "data:", and for every string that begins with "data:" but has no
\* ";" between type and encoding or no "," before the payload.
InvalidFormatRejected ==
  (/\ pc = "done" /\ op = "blob.fromDataUrl"
   /\ \/ ~startsWith(arg.dataUrl, DataScheme)
      \/ ~Has(Header(arg.dataUrl), ";")
      \/ ~Has(arg.dataUrl, ","))
    => ret = ThrowError(<<"I", "n", "v", "a", "l", "i", "d", " ", "d", "a", "t", "a", " ", "U", "R", "L">>)

DataUrlRoundTrip ==
  (pc = "done" /\ op = "blob.toDataUrl") =>
     fromDataUrl(ret.text, Undefined) = arg.blob

\* C20: once listen(elm, type, listener, options) has run and the function it
\* returned has been called, the listener is no longer registered on elm for type,
\* whatever options was, and no event dispatched afterwards invokes it.
CleanupRemovesListener ==
  (op = "listen" /\ pc = "cleaned") =>
     /\ ~\E l \in elm : l.type = arg.type /\ l.callback = arg.listener
     /\ \A i \in 1..Len(invoked) : invoked[i] # "cleaned"

\* a string of n "/"
Slashes(n) == [i \in 1..n |-> "/"]

\* the arguments of joinPath that give a segment
GivesSegment(a) == a.kind = "text" /\ a.text # <<>> /\ trimSlashes(a.text) # <<>>

\* the trimmed segments of an argument list, in order
RECURSIVE SegmentsOf(_)
SegmentsOf(args) ==
  IF args = <<>> THEN <<>>
  ELSE (IF GivesSegment(args[1]) THEN <<trimSlashes(args[1].text)>> ELSE <<>>)
       \o SegmentsOf(Tail(args))

\* C21: joinPath(...args) is the "/"-joined sequence of trimSlashes(a) over the
\* arguments a, in order, that are not '', null or undefined and whose
\* trimSlashes(a) is not empty; the result neither starts nor ends with "/", and an
\* argument of slashes alone adds neither a segment nor a separator.
JoinPathOfSegments ==
  (pc = "done" /\ op = "joinPath") =>
     /\ ret = Text(arrayJoin(SegmentsOf(arg.args), <<"/">>))
     /\ ret.text # <<>> => ret.text[1] # "/" /\ ret.text[Len(ret.text)] # "/"
     /\ (\A k \in 1..Len(arg.args) : ~GivesSegment(arg.args[k])) => ret.text = <<>>

\* joinPath("/a/", "//", "b") has returned "a/b"
JoinPathOfSegmentsWitness ==
  /\ pc = "done" /\ op = "joinPath"
  /\ arg.args = <<Text(<<"/", "a", "/">>), Text(<<"/", "/">>), Text(<<"b">>)>>
  /\ ret = Text(<<"a", "/", "b">>)

\* C22: trimSlashes(s) is s without its longest run of "/" at the start and its
\* longest run of "/" at the end, every other character kept in order; it is empty
\* for the empty string and for a string of "/" alone, and trimming it again
\* changes nothing.
TrimSlashesExact ==
  (pc = "done" /\ op = "trimSlashes") =>
     /\ \E a \in 0..Len(arg.s) : \E b \in 0..Len(arg.s) :
          arg.s = Slashes(a) \o ret.text \o Slashes(b)
     /\ ret.text # <<>> => ret.text[1] # "/" /\ ret.text[Len(ret.text)] # "/"
     /\ (\A k \in 1..Len(arg.s) : arg.s[k] = "/") => ret.text = <<>>
     /\ trimSlashes(ret.text) = ret.text

\* trimSlashes("/a/b") has returned "a/b", the inner slash kept
TrimSlashesExactWitness ==
  /\ pc = "done" /\ op = "trimSlashes"
  /\ arg.s = <<"/", "a", "/", "b">>
  /\ ret.text = <<"a", "/", "b">>

\* C23: for delay(ms, fn), fn is invoked at most once; a call of cancel returns
\* true exactly when fn has not been invoked by then, so false after or from within
\* the invocation; and once cancel has been called before the timer fired, fn is
\* never invoked.
DelayCancel ==
  op = "delay" =>
     /\ Count("fn") <= 1
     /\ \A j \in 1..Len(log) :
          log[j].event = "cancel" =>
            (log[j].returned.value <=> ~\E i \in 1..(j - 1) : log[i].event = "fn")
     /\ \A i \in 1..Len(log) : \A j \in (i + 1)..Len(log) :
          ~(log[i].event = "cancel" /\ log[j].event = "fn")

\* fn has run and called cancel itself, and cancel was called once more: both
\* calls returned false
DelayCancelWitness ==
  /\ op = "delay" /\ pc = "delayed" /\ arg.fnCancels
  /\ log = <<Event("fn", Undefined), CancelEvent(TRUE), CancelEvent(TRUE)>>

\* C24: for wait(ms, abort) called before any abort: when the abort comes first,
\* the promise is rejected with the reason of the signal, the timer is cleared and
\* never fires; when the timer fires first, or there is no abort, the promise is
\* fulfilled with undefined, and a later abort leaves it so; it settles once.
WaitSettlesOnce ==
  (op = "wait" /\ Len(log) >= 2 /\ log[1].event = "wait") =>
     IF log[2].event = "abort"
     THEN /\ promise = Rejected(log[2].returned)
          /\ signal.reason = log[2].returned
          /\ timer = "cleared"
          /\ Count("timeout") = 0
     ELSE /\ promise = Fulfilled(Undefined)
          /\ timer = "fired"
          /\ Count("timeout") = 1

\* the timer fired and an abort came after it: the promise is still fulfilled
WaitSettlesOnceWitness ==
  /\ op = "wait" /\ pc = "waiting"
  /\ log = <<Event("wait", Undefined), Event("timeout", Undefined),
             Event("abort", Reason("stop"))>>
  /\ promise = Fulfilled(Undefined)

\* C30: wait(ms, abort) called with a controller whose signal is aborted already
\* returns a promise that is rejected with the reason of the signal and is not
\* fulfilled once ms has passed.
WaitAfterAbortRejects ==
  (op = "wait" /\ pc = "waiting" /\ log[1].event = "abort") =>
     /\ promise.state # "fulfilled"
     /\ timer # "pending" => promise = Rejected(signal.reason)

\* C25: resultOf(p) never rejects: once p is fulfilled with v it is fulfilled with
\* the pair [v, undefined], once p is rejected with e with the pair [undefined, e],
\* and val and err give element 0 and element 1 of the pair.
ResultOfNeverRejects ==
  op = "resultOf" =>
     /\ promise.state # "rejected"
     /\ promise.state = "fulfilled" =>
          /\ sources[1].state = "fulfilled" =>
               promise.value.elems = <<sources[1].value, Undefined>>
          /\ sources[1].state = "rejected" =>
               promise.value.elems = <<Undefined, sources[1].value>>
          /\ sources[1].state # "pending"
          /\ getVal(promise.value) = promise.value.elems[1]
          /\ getErr(promise.value) = promise.value.elems[2]
     /\ 1 \in reacted => promise.state = "fulfilled"

\* p was rejected and the promise of resultOf is fulfilled with [undefined, e]
ResultOfNeverRejectsWitness ==
  /\ op = "resultOf" /\ pc = "awaiting"
  /\ sources[1] = Rejected(ErrorOf(1))
  /\ promise = Fulfilled(result(Undefined, ErrorOf(1)))

\* what tryMe has to do with a function: it returns a promise and throws nothing,
\* calls the function once with the arguments, and the promise is fulfilled with
\* the value returned, or takes the outcome of the promise returned, or is rejected
\* with what the function throws
TryMeOfFunction ==
  /\ ret = PromiseRef
  /\ Count("fn") = 1
  /\ \A i \in 1..Len(log) : log[i].event = "fn" => log[i].returned = arg.args
  /\ arg.callback.does = "throw" => promise = Rejected(arg.callback.value)
  /\ (arg.callback.does = "return" /\ ~IsPromise(arg.callback.value)) =>
       promise = Fulfilled(arg.callback.value)
  /\ (arg.callback.does = "return" /\ IsPromise(arg.callback.value)) =>
       promise = IF 1 \in reacted THEN sources[1] ELSE Pending

\* C26 as stated: tryMe never throws synchronously; with a function it calls it
\* once with the arguments and its promise takes the function's outcome; with a
\* value that is no function it returns a promise fulfilled with that value.
TryMeFulfilsValue ==
  (op = "tryMe" /\ pc = "awaiting") =>
     IF arg.callback.kind = "function" THEN TryMeOfFunction
     ELSE /\ ret = PromiseRef /\ Count("fn") = 0
          /\ promise.state # "rejected"
          /\ promise.state = "fulfilled" => promise.value = arg.callback

\* C26 as amended: as stated for a function; with a value that is no function it
\* returns a promise fulfilled with that value, unless the value is a promise, the
\* outcome of which its promise then takes, a rejection too.
TryMeResolvesValue ==
  (op = "tryMe" /\ pc = "awaiting") =>
     IF arg.callback.kind = "function" THEN TryMeOfFunction
     ELSE /\ ret = PromiseRef /\ Count("fn") = 0
          /\ ~IsPromise(arg.callback) => promise = Fulfilled(arg.callback)
          /\ IsPromise(arg.callback) =>
               promise = IF 1 \in reacted THEN sources[1] ELSE Pending

\* tryMe was handed a promise that is rejected, and its promise is rejected too
TryMeResolvesValueWitness ==
  /\ op = "tryMe" /\ pc = "awaiting"
  /\ arg.callback = PromiseValue(1)
  /\ sources[1] = Rejected(ErrorOf(1))
  /\ promise = Rejected(ErrorOf(1))

\* the places in log of the rejections, and of the call
RejectionsAt ==
  {i \in 1..Len(log) : log[i].event = "settle" /\ log[i].returned.outcome.state = "rejected"}

CallAt == CHOOSE i \in 1..Len(log) : log[i].event = "call"

\* the reason of the input that was rejected first in time
FirstRejected ==
  log[CHOOSE i \in RejectionsAt : \A j \in RejectionsAt : i <= j].returned.outcome.value

\* the inputs that were rejected when allOf was called
RejectedAtCall == {log[i].returned.source : i \in {j \in RejectionsAt : j < CallAt}}

\* what allOf does with fulfilments: it is fulfilled only when every input is, with
\* the value of input i at index i, and never once an input is rejected
AllOfFulfils ==
  /\ promise.state = "fulfilled" =>
       /\ \A i \in 1..Len(sources) : sources[i].state = "fulfilled"
       /\ promise.value = Array([i \in 1..Len(sources) |-> sources[i].value])
  /\ (\A i \in 1..Len(sources) : i \in reacted /\ sources[i].state = "fulfilled")
       => promise.state = "fulfilled"
  /\ promise.state = "rejected" => RejectionsAt # {}

\* C27 as stated: allOf is fulfilled only after every input is, with the value of
\* input i at index i whatever the order of settling; when an input rejects it is
\* rejected with the reason of the input that rejected first in time.
AllOfFirstInTime ==
  (op = "allOf" /\ pc = "awaiting") =>
     /\ AllOfFulfils
     /\ promise.state = "rejected" => promise.value = FirstRejected

\* C27 as amended: as stated for fulfilment; it is rejected with the reason of the
\* input whose rejection it sees first: of the inputs rejected before the call the
\* first in the order of the arguments, and when there is none the input that
\* rejected first in time.
AllOfFirstSeen ==
  (op = "allOf" /\ pc = "awaiting") =>
     /\ AllOfFulfils
     /\ promise.state = "rejected" =>
          promise.value =
            IF RejectedAtCall # {}
            THEN sources[CHOOSE i \in RejectedAtCall : \A j \in RejectedAtCall : i <= j].value
            ELSE FirstRejected

\* input 2 was rejected, then input 1, then allOf was called: it is rejected with
\* the reason of input 1
AllOfFirstSeenWitness ==
  /\ op = "allOf" /\ pc = "awaiting" /\ Len(log) = 3
  /\ log[1].returned = [source |-> 2, outcome |-> Rejected(ErrorOf(2))]
  /\ log[2].returned = [source |-> 1, outcome |-> Rejected(ErrorOf(1))]
  /\ promise = Rejected(ErrorOf(1))

\* the values a sequence yields
Yielded(it) == {it[i] : i \in 1..Len(it)}

\* C28: S.toggle(it) returns the symmetric difference of S and the set of values
\* it yields, also when it yields a value more than once.
ToggleSymmetricDifference ==
  (op = "toggle" /\ pc = "returned" /\ log = <<>>) =>
     heap[ret.ref] = (arg.S \ Yielded(arg.it)) \cup (Yielded(arg.it) \ arg.S)

\* what each method returns, as a set
Expected ==
  IF op = "clone" THEN arg.S
  ELSE IF op = "subtract" THEN arg.S \ Yielded(arg.it)
  ELSE IF op = "merge" THEN arg.S \cup Yielded(arg.it)
  ELSE IF op = "intersect" THEN arg.S \cap Yielded(arg.it)
  ELSE opLoop("toggle", arg.S, arg.S, arg.it)

\* C29: clone, toggle, subtract, merge and intersect leave S as it was and return
\* another BetterSet: adding to or deleting from the set returned does not change
\* S, and adding to or deleting from S does not change the set returned.
MethodsLeaveS ==
  (op \in SetMethods /\ pc = "returned") =>
     /\ ret.ref # "S"
     /\ ret.ref \in DOMAIN heap
     /\ (\A i \in 1..Len(log) : log[i].returned = ret.ref) => heap["S"] = arg.S
     /\ (\A i \in 1..Len(log) : log[i].returned = "S") => heap[ret.ref] = Expected

\* merge has returned a set, a value was added to it, and S is as it was
MethodsLeaveSWitness ==
  /\ op = "merge" /\ pc = "returned"
  /\ arg.S = {1} /\ arg.it = <<2>>
  /\ log = <<Event("mutate", "R")>>
  /\ heap["R"] = {1, 2} /\ heap["S"] = {1}

====
